---------------------------- MODULE Spec2Model ----------------------------
(***************************************************************************)
(* Model of velbus/controller.py: the Controller of a Velbus bus           *)
(* connection.  The state is the Controller's fields plus the transport    *)
(* and the module drivers it talks to (requests sent, completion           *)
(* continuations not yet invoked).  History variables (responses, notified,*)
(* lastOp, cbInvocations) record what the environment handed in and what   *)
(* the Controller did with it; the code never reads them.                  *)
(***************************************************************************)
EXTENDS Integers, Sequences, FiniteSets

(* ------------------------------ bounds -------------------------------- *)
\* number of subscribe() calls in a run
MaxSubscribes == 3
\* number of module-type responses handed to new_message() in a run
MaxMsgs == 2
\* number of scan() calls that get past the 'already in progress' test
MaxScans == 2
\* number of send_binary() calls in a run
MaxBinary == 1

(* ------------------------- program constants -------------------------- *)
\* range(0, 256) of the request loop of scan()
NumAddresses == 256

\* MODULE_CATEGORIES: category name -> module type names
MODULE_CATEGORIES ==
    [c \in {"switch", "binary_sensor"} |->
        IF c = "switch" THEN {"VMB4RYLD", "VMB4RYNO"} ELSE {"VMB6IN", "VMB7IN"}]

(* ------------------- the velbus package (not in src) ------------------ *)
\* module type codes a ModuleTypeMessage can carry
TypeCodes == {"t_relay", "t_input", "t_dimmer", "t_bogus"}

\* ModuleTypeMessage.module_name(): the type name of a code, "Unknown" for
\* a code the package does not know
ModuleName(m_type) ==
    CASE m_type = "t_relay"  -> "VMB4RYLD"
      [] m_type = "t_input"  -> "VMB6IN"
      [] m_type = "t_dimmer" -> "VMBDME"
      [] OTHER               -> "Unknown"

\* velbus.ModuleRegistry: the type names a constructor is registered for
ModuleRegistry == {"VMB4RYLD", "VMB6IN"}

\* the kinds of decoded message (the classes new_message() tests for, and
\* any other velbus.Message)
StatusKinds == {"BusActive", "ReceiveReady", "BusOff", "ReceiveBufferFull", "Other"}

(* ------------------------------ inputs -------------------------------- *)
\* bus addresses module-type responses are drawn from
Addrs == {1, 2}
Observers == {"o1", "o2"}
\* the callback argument of scan(): the default None, or a callable
CallbackArgs == {"None", "cb"}
\* the category argument of get_modules(); "light" is not in the table
CategoryArgs == {"switch", "binary_sensor", "light"}

NoMsg == [kind |-> "None", address |-> 0, module_type |-> "none"]
StatusMsg(k) == [kind |-> k, address |-> 0, module_type |-> "none"]
TypeMsg(a, t) == [kind |-> "ModuleType", address |-> a, module_type |-> t]
StatusMessages == {StatusMsg(k) : k \in StatusKinds}
\* one response of each outcome: registered, not supported, unknown
OutcomeMessages == {TypeMsg(1, t) : t \in {"t_relay", "t_dimmer", "t_bogus"}}
\* a bus-status message, another message, and the three responses
PubSubMessages == {StatusMsg("BusOff"), StatusMsg("Other")} \cup OutcomeMessages
TypeMessages == {TypeMsg(a, t) : a \in Addrs, t \in TypeCodes}

\* the encoded messages handed to send_binary(): a well-formed frame of a
\* message, or a string the parser decodes to nothing
BinaryMessages ==
    {[frame |-> "ok", body |-> StatusMsg("Other")], [frame |-> "garbage", body |-> NoMsg]}

\* VelbusParser.parse(): the decoded message, or None
Parse(binary_message) ==
    IF binary_message.frame = "ok" THEN binary_message.body ELSE NoMsg

VARIABLES
    subscribers,     \* self.__subscribers: list of [obs, ticket]
    nextTicket,      \* number of subscribe() calls so far, plus one
    scan_callback,   \* self.__scan_callback
    modules,         \* self._modules: address -> Module
    order,           \* insertion order of the keys of self._modules
    modules_loaded,  \* self._modules_loaded
    wire,            \* transport: [sent, scanReqs, pending255, last]
    settling,        \* scan_finished() activations inside time.sleep(3)
    nameReq,         \* address -> get_name() continuations not yet invoked
    responses,        \* history: the module-type responses handed to new_message()
    notified,        \* history: deliveries made for the last message
    cbInvocations,   \* history: completed calls of the scan callback
    lastOp           \* history: the last operation and how it ended

vars == <<subscribers, nextTicket, scan_callback, modules, order, modules_loaded,
          wire, settling, nameReq, responses, notified, cbInvocations, lastOp>>

Op(op, raised) ==
    [op |-> op, raised |-> raised, category |-> "none", msg |-> NoMsg,
     result |-> <<>>, callback |-> "None"]

Init ==
    /\ subscribers = <<>>
    /\ nextTicket = 1
    /\ scan_callback = "None"
    /\ modules = <<>>
    /\ order = <<>>
    /\ modules_loaded = 0
    /\ wire = [sent |-> 0, scanReqs |-> 0, pending255 |-> 0,
               last |-> [msg |-> NoMsg, callback |-> "None"]]
    /\ settling = 0
    /\ nameReq = [a \in Addrs |-> 0]
    /\ responses = <<>>
    /\ notified = <<>>
    /\ cbInvocations = 0
    /\ lastOp = Op("init", "None")

(* --------------------------- python helpers --------------------------- *)
\* truth value of a callback slot: None is false, a callable is true
Truthy(v) == v # "None"

\* str + x: a str when x is a str, TypeError otherwise
PyStrConcat(left, right) ==
    IF left = "str" /\ right = "str" THEN "str" ELSE "TypeError"

\* list.remove(x): drops the first element equal to x
RECURSIVE RemoveFirst(_, _)
RemoveFirst(s, o) ==
    IF s = <<>> THEN <<>>
    ELSE IF Head(s).obs = o THEN Tail(s)
    ELSE <<Head(s)>> \o RemoveFirst(Tail(s), o)

\* dict.items(): (key, value) tuples in insertion order
DictItems(mods, ord) ==
    [i \in 1..Len(ord) |-> [kind |-> "tuple", key |-> ord[i], value |-> mods[ord[i]]]]

\* dict.values(): the values in insertion order
DictValues(mods, ord) == [i \in 1..Len(ord) |-> mods[ord[i]]]

(* ----------------------------- subscribe ------------------------------ *)
\* list.append() that puts the new element first
ListAppend_AtHead(subs, entry) == <<entry>> \o subs

\* line 62: list.append()
ListAppend(subs, entry) == Append(subs, entry)

subscribe(o) ==
    /\ nextTicket <= MaxSubscribes
    /\ subscribers' = ListAppend(subscribers, [obs |-> o, ticket |-> nextTicket])
    /\ nextTicket' = nextTicket + 1
    /\ lastOp' = Op("subscribe", "None")
    /\ UNCHANGED <<scan_callback, modules, order, modules_loaded, wire, settling,
                   nameReq, responses, notified, cbInvocations>>

unsubscribe(o) ==
    /\ IF \E i \in 1..Len(subscribers) : subscribers[i].obs = o
       THEN /\ subscribers' = RemoveFirst(subscribers, o)
            /\ lastOp' = Op("unsubscribe", "None")
       ELSE /\ subscribers' = subscribers
            /\ lastOp' = Op("unsubscribe", "ValueError")
    /\ UNCHANGED <<nextTicket, scan_callback, modules, order, modules_loaded, wire,
                   settling, nameReq, responses, notified, cbInvocations>>

(* ---------------------------- new_message ----------------------------- *)
\* the Module object velbus.ModuleRegistry[name](m_type, name, address, self)
\* builds; id tells apart the objects built by different responses
NewModule(message, id) ==
    [kind |-> "module", m_type |-> message.module_type,
     name |-> ModuleName(message.module_type), address |-> message.address, id |-> id]

\* lines 158-160: new_message() returns before the subscriber loop
ReturnsEarly(message) ==
    message.kind = "ModuleType" /\ ModuleName(message.module_type) = "Unknown"

\* RegisterModule without the test of line 161
RegisterModule_AnyKnownName(mods, message, id) ==
    IF message.kind # "ModuleType" THEN mods
    ELSE IF ModuleName(message.module_type) = "Unknown" THEN mods
    ELSE [a \in DOMAIN mods \cup {message.address} |->
             IF a = message.address THEN NewModule(message, id) ELSE mods[a]]

\* RegisterModule that keeps the entry of an address already registered
RegisterModule_FirstWins(mods, message, id) ==
    IF message.kind # "ModuleType" THEN mods
    ELSE IF ModuleName(message.module_type) = "Unknown" THEN mods
    ELSE IF ModuleName(message.module_type) \in ModuleRegistry
              /\ message.address \notin DOMAIN mods
         THEN [a \in DOMAIN mods \cup {message.address} |->
                  IF a = message.address THEN NewModule(message, id) ELSE mods[a]]
         ELSE mods

\* RegisterModule that empties the registry when the bus goes off
RegisterModule_ResetOnBusOff(mods, message, id) ==
    IF message.kind = "BusOff" THEN <<>>
    ELSE IF message.kind # "ModuleType" THEN mods
    ELSE IF ModuleName(message.module_type) = "Unknown" THEN mods
    ELSE IF ModuleName(message.module_type) \in ModuleRegistry
         THEN [a \in DOMAIN mods \cup {message.address} |->
                  IF a = message.address THEN NewModule(message, id) ELSE mods[a]]
         ELSE mods

\* lines 153-165: self._modules after the classification of message
RegisterModule(mods, message, id) ==
    IF message.kind # "ModuleType" THEN mods
    ELSE IF ModuleName(message.module_type) = "Unknown" THEN mods
    ELSE IF ModuleName(message.module_type) \in ModuleRegistry
         THEN [a \in DOMAIN mods \cup {message.address} |->
                  IF a = message.address THEN NewModule(message, id) ELSE mods[a]]
         ELSE mods

\* the key order of self._modules: a new key goes last, a key that is
\* assigned again keeps its place
KeyOrder(ord, mods) ==
    IF \E a \in DOMAIN mods : \A i \in 1..Len(ord) : ord[i] # a
    THEN Append(ord, CHOOSE a \in DOMAIN mods : \A i \in 1..Len(ord) : ord[i] # a)
    ELSE ord

\* lines 166-167: one call of each subscriber, in list order
NotifySubscribers(subs, message) ==
    [i \in 1..Len(subs) |-> [obs |-> subs[i].obs, ticket |-> subs[i].ticket, msg |-> message]]

new_message(message) ==
    /\ message.kind = "ModuleType" => Len(responses) < MaxMsgs
    /\ responses' = IF message.kind = "ModuleType" THEN Append(responses, message)
                    ELSE responses
    /\ modules' = RegisterModule(modules, message, Len(responses) + 1)
    /\ order' = KeyOrder(order, modules')
    /\ notified' = IF ReturnsEarly(message) THEN <<>>
                   ELSE NotifySubscribers(subscribers, message)
    /\ lastOp' = [Op("new_message", "None") EXCEPT !.msg = message]
    /\ UNCHANGED <<subscribers, nextTicket, scan_callback, modules_loaded, wire,
                   settling, nameReq, cbInvocations>>

(* ------------------------------- send --------------------------------- *)
ModuleTypeRequestMessage(address) ==
    [kind |-> "ModuleTypeRequest", address |-> address, module_type |-> "none"]

\* the request loop as range(0, 255): address 255 is never asked
ScanRequests_Short ==
    [i \in 1..(NumAddresses - 1) |->
        [msg |-> [kind |-> "ModuleTypeRequest", address |-> i - 1, module_type |-> "none"],
         callback |-> "None"]]

\* lines 123-128: the sends of the request loop of scan(), in the order
\* the loop makes them; the request for address 255 carries scan_finished
ScanRequests ==
    [i \in 1..NumAddresses |->
        [msg |-> ModuleTypeRequestMessage(i - 1),
         callback |-> IF i - 1 = 255 THEN "scan_finished" ELSE "None"]]

\* the transport after the sends reqs, made one after the other
SendAll(w, reqs) ==
    IF reqs = <<>> THEN w
    ELSE [sent       |-> w.sent + Len(reqs),
          scanReqs   |-> w.scanReqs +
                Cardinality({i \in 1..Len(reqs) : reqs[i].msg.kind = "ModuleTypeRequest"}),
          pending255 |-> w.pending255 +
                Cardinality({i \in 1..Len(reqs) : reqs[i].callback = "scan_finished"}),
          last       |-> reqs[Len(reqs)]]

\* a send that does not pass the callback on
ConnSend_DropsCallback(w, message, callback) ==
    SendAll(w, <<[msg |-> message, callback |-> "None"]>>)

\* Controller.send -> connection.send(message, callback): the transport
\* takes the message and keeps the callback until the send completes
ConnSend(w, message, callback) ==
    SendAll(w, <<[msg |-> message, callback |-> callback]>>)

send_binary(binary_message, callback) ==
    /\ wire.sent - wire.scanReqs < MaxBinary
    /\ IF Parse(binary_message).kind # "None"
       THEN wire' = ConnSend(wire, Parse(binary_message), callback)
       ELSE wire' = wire
    /\ notified' = <<>>
    /\ lastOp' = [Op("send_binary", "None") EXCEPT !.msg = Parse(binary_message),
                                                   !.callback = callback]
    /\ UNCHANGED <<subscribers, nextTicket, scan_callback, modules, order,
                   modules_loaded, settling, nameReq, responses, cbInvocations>>

(* ------------------------------- scan --------------------------------- *)
\* lines 100-101: the test that rejects a scan
ScanRejected(current) == Truthy(current)

scan(callback) ==
    IF ScanRejected(scan_callback)
    THEN /\ lastOp' = [Op("scan", "ScanInProgress") EXCEPT !.callback = callback]
         /\ UNCHANGED <<subscribers, nextTicket, scan_callback, modules, order,
                        modules_loaded, wire, settling, nameReq, responses, notified,
                        cbInvocations>>
    ELSE /\ wire.scanReqs < MaxScans * NumAddresses
         /\ scan_callback' = callback
         /\ wire' = SendAll(wire, ScanRequests)
         /\ lastOp' = [Op("scan", "None") EXCEPT !.callback = callback,
                                                 !.result = ScanRequests]
         /\ UNCHANGED <<subscribers, nextTicket, modules, order, modules_loaded,
                        settling, nameReq, responses, notified, cbInvocations>>

\* the transport signals that the request for address 255 completed:
\* scan_finished() starts and sleeps (line 118)
scan_finished_begin ==
    /\ wire.pending255 > 0
    /\ wire' = [wire EXCEPT !.pending255 = @ - 1]
    /\ settling' = settling + 1
    /\ lastOp' = Op("scan_finished_begin", "None")
    /\ UNCHANGED <<subscribers, nextTicket, scan_callback, modules, order,
                   modules_loaded, nameReq, responses, notified, cbInvocations>>

\* a loop that asks every address for its name, registered or not
GetNames_EveryAddress(reqs, mods, ord) == [a \in DOMAIN reqs |-> reqs[a] + 1]

\* lines 120-121: module.get_name(module_loaded) for every registered
\* module; the driver keeps the continuation until the name is known
GetNames(reqs, mods, ord) ==
    [a \in DOMAIN reqs |->
        reqs[a] + Cardinality({i \in 1..Len(DictValues(mods, ord)) :
                                   DictValues(mods, ord)[i].address = a})]

\* the sleep of scan_finished() is over (lines 119-121)
scan_finished_resolve ==
    /\ settling > 0
    /\ settling' = settling - 1
    /\ nameReq' = GetNames(nameReq, modules, order)
    /\ lastOp' = Op("scan_finished_resolve", "None")
    /\ UNCHANGED <<subscribers, nextTicket, scan_callback, modules, order,
                   modules_loaded, wire, responses, notified, cbInvocations>>

\* line 110 with the count converted by str()
ModuleLoadedLog_Str == PyStrConcat("str", "str")

\* line 110: "Module loaded (" + self._modules_loaded, a str plus an int
ModuleLoadedLog == PyStrConcat("str", "int")

\* lines 111-112: the completion test of module_loaded()
AllLoaded(loaded, nb_modules) == loaded >= nb_modules

\* a module driver invokes the continuation module_loaded() (lines 104-112)
module_loaded(a) ==
    /\ nameReq[a] > 0
    /\ nameReq' = [nameReq EXCEPT ![a] = @ - 1]
    /\ modules_loaded' = modules_loaded + 1
    /\ IF ModuleLoadedLog = "TypeError"
       THEN /\ lastOp' = Op("module_loaded", "TypeError")
            /\ UNCHANGED cbInvocations
       ELSE IF AllLoaded(modules_loaded', Len(DictItems(modules, order)))
       THEN IF scan_callback = "None"
            THEN /\ lastOp' = Op("module_loaded", "TypeError")
                 /\ UNCHANGED cbInvocations
            ELSE /\ lastOp' = [Op("module_loaded", "None") EXCEPT
                                  !.callback = scan_callback]
                 /\ cbInvocations' = cbInvocations + 1
       ELSE /\ lastOp' = Op("module_loaded", "None")
            /\ UNCHANGED cbInvocations
    /\ UNCHANGED <<subscribers, nextTicket, scan_callback, modules, order, wire,
                   settling, responses, notified>>

(* ---------------------------- get_modules ----------------------------- *)
\* lines 88-92: the loop of get_modules() over items, from index i on
RECURSIVE GetModulesLoop(_, _, _, _)
GetModulesLoop(items, i, category, result) ==
    IF i > Len(items) THEN [raised |-> "None", result |-> result]
    ELSE IF items[i].kind # "module"
         THEN [raised |-> "AttributeError", result |-> <<>>]
    ELSE IF category \notin DOMAIN MODULE_CATEGORIES
         THEN [raised |-> "KeyError", result |-> <<>>]
    ELSE IF items[i].name \in MODULE_CATEGORIES[category]
         THEN GetModulesLoop(items, i + 1, category, Append(result, items[i]))
    ELSE GetModulesLoop(items, i + 1, category, result)

\* line 89: what get_modules() iterates over
GetModulesIterable(mods, ord) == DictItems(mods, ord)

get_modules(category) ==
    /\ lastOp' = [Op("get_modules",
                     GetModulesLoop(GetModulesIterable(modules, order), 1, category, <<>>).raised)
                  EXCEPT !.category = category,
                         !.result = GetModulesLoop(GetModulesIterable(modules, order), 1,
                                                   category, <<>>).result]
    /\ UNCHANGED <<subscribers, nextTicket, scan_callback, modules, order,
                   modules_loaded, wire, settling, nameReq, responses, notified,
                   cbInvocations>>

(* ------------------ new_message with acting subscribers --------------- *)
\* what the callback of one observer (the reactor) does when it is called:
\* nothing, unsubscribe itself, unsubscribe or subscribe the other observer
Reactions == {"none", "unsubscribe_self", "unsubscribe_other", "subscribe_other"}

OtherObserver(o) == CHOOSE p \in Observers : p # o

\* the callback of observer o runs: the subscriber list after its call of
\* subscribe() (line 62) or unsubscribe() (line 74), the next ticket, and
\* the error it raises
React(subs, o, reaction, ticket) ==
    LET target == IF reaction = "unsubscribe_self" THEN o ELSE OtherObserver(o)
    IN  IF reaction = "none"
        THEN [subs |-> subs, ticket |-> ticket, raised |-> "None"]
        ELSE IF reaction = "subscribe_other"
        THEN [subs |-> ListAppend(subs, [obs |-> target, ticket |-> ticket]),
              ticket |-> ticket + 1, raised |-> "None"]
        ELSE IF \E i \in 1..Len(subs) : subs[i].obs = target
        THEN [subs |-> RemoveFirst(subs, target), ticket |-> ticket, raised |-> "None"]
        ELSE [subs |-> subs, ticket |-> ticket, raised |-> "ValueError"]

\* line 166: the list iterator of the for loop steps to the next position
\* of the list as it is now, whatever the callback did to the list
LoopNext(i, before, after) == i + 1

\* the registry a subscriber sees when the registry is updated after the loop
RegistryAtDispatch_Before(before, after) == DOMAIN before

\* lines 161-163 run before lines 166-167: the registry a subscriber sees
RegistryAtDispatch(before, after) == DOMAIN after

\* lines 166-167 with callbacks that act: the loop over the list itself,
\* from position i on; an error raised by a callback ends it
RECURSIVE SubscriberLoop(_, _, _, _, _, _, _, _)
SubscriberLoop(subs, i, message, registry, reactor, reaction, ticket, called) ==
    IF i > Len(subs)
    THEN [subs |-> subs, notified |-> called, ticket |-> ticket, raised |-> "None"]
    ELSE LET entry == [obs |-> subs[i].obs, ticket |-> subs[i].ticket,
                       msg |-> message, registry |-> registry]
             after == IF subs[i].obs = reactor
                      THEN React(subs, subs[i].obs, reaction, ticket)
                      ELSE React(subs, subs[i].obs, "none", ticket)
         IN  IF after.raised # "None"
             THEN [subs |-> after.subs, notified |-> Append(called, entry),
                   ticket |-> after.ticket, raised |-> after.raised]
             ELSE SubscriberLoop(after.subs, LoopNext(i, subs, after.subs), message,
                                 registry, reactor, reaction, after.ticket,
                                 Append(called, entry))

\* new_message() (lines 140-167) when the callback of reactor acts on the
\* subscriber list; lastOp.result keeps the list as it was at line 166
new_message_callbacks(message, reactor, reaction) ==
    /\ message.kind = "ModuleType" => Len(responses) < MaxMsgs
    /\ reaction = "subscribe_other" => nextTicket <= MaxSubscribes + 1
    /\ responses' = IF message.kind = "ModuleType" THEN Append(responses, message)
                    ELSE responses
    /\ modules' = RegisterModule(modules, message, Len(responses) + 1)
    /\ order' = KeyOrder(order, modules')
    /\ LET run == IF ReturnsEarly(message)
                  THEN [subs |-> subscribers, notified |-> <<>>,
                        ticket |-> nextTicket, raised |-> "None"]
                  ELSE SubscriberLoop(subscribers, 1, message,
                                      RegistryAtDispatch(modules, modules'),
                                      reactor, reaction, nextTicket, <<>>)
       IN  /\ subscribers' = run.subs
           /\ nextTicket' = run.ticket
           /\ notified' = run.notified
           /\ lastOp' = [Op("new_message", run.raised) EXCEPT !.msg = message,
                                                             !.result = subscribers]
    /\ UNCHANGED <<scan_callback, modules_loaded, wire, settling, nameReq,
                   cbInvocations>>

(* -------------------------- specifications --------------------------- *)
\* The operations fall into groups that write disjoint parts of the state;
\* each specification runs one group together with new_message(), which
\* every group depends on.

\* discovery: scan(), its continuations, and module-type responses
ScanNext ==
    \/ \E cb \in CallbackArgs : scan(cb)
    \/ scan_finished_begin
    \/ scan_finished_resolve
    \/ \E a \in Addrs : module_loaded(a)
    \/ \E m \in TypeMessages : new_message(m)

SpecScan == Init /\ [][ScanNext]_vars

\* publish/subscribe: every kind of message, and send_binary()
PubSubNext ==
    \/ \E o \in Observers : subscribe(o)
    \/ \E o \in Observers : unsubscribe(o)
    \/ \E m \in PubSubMessages : new_message(m)
    \/ \E b \in BinaryMessages, cb \in CallbackArgs : send_binary(b, cb)

SpecPubSub == Init /\ [][PubSubNext]_vars

\* registry queries
QueryNext ==
    \/ \E m \in TypeMessages : new_message(m)
    \/ \E c \in CategoryArgs : get_modules(c)

SpecQuery == Init /\ [][QueryNext]_vars

\* dispatch to subscribers whose callbacks subscribe and unsubscribe
DispatchMessages == {StatusMsg("Other"), TypeMsg(1, "t_relay"), TypeMsg(2, "t_input")}

DispatchNext ==
    \/ \E o \in Observers : subscribe(o)
    \/ \E m \in DispatchMessages, o \in Observers, r \in Reactions :
          new_message_callbacks(m, o, r)

SpecDispatch == Init /\ [][DispatchNext]_vars

\* bus-status messages arriving while a scan runs and observers listen
StatusNext ==
    \/ subscribe("o1")
    \/ \E m \in StatusMessages \cup {TypeMsg(1, "t_relay")} : new_message(m)
    \/ \E cb \in CallbackArgs : scan(cb)
    \/ scan_finished_begin
    \/ scan_finished_resolve
    \/ \E a \in Addrs : module_loaded(a)

SpecStatus == Init /\ [][StatusNext]_vars
(* ------------------------------ claims -------------------------------- *)
\* a module-type response that registers its address: the type name is
\* known and a constructor is registered for it
Recognized(m) ==
    /\ m.kind = "ModuleType"
    /\ ModuleName(m.module_type) # "Unknown"
    /\ ModuleName(m.module_type) \in ModuleRegistry

\* the positions in responses of the recognized responses for address a
RecognizedAt(a) ==
    {i \in 1..Len(responses) : responses[i].address = a /\ Recognized(responses[i])}

First(S) == CHOOSE i \in S : \A j \in S : i <= j
Last(S) == CHOOSE i \in S : \A j \in S : j <= i

\* a scan whose continuations have not all run: the request for address
\* 255 is outstanding, or scan_finished() sleeps, or a name is awaited
ScanInFlight ==
    wire.pending255 > 0 \/ settling > 0 \/ \E a \in Addrs : nameReq[a] > 0

\* a scan was started, every continuation it caused has run, and the
\* loaded-count has reached the number of registered modules
ResolutionOver ==
    /\ wire.scanReqs > 0
    /\ ~ScanInFlight
    /\ modules_loaded >= Cardinality(DOMAIN modules)

\* C1: whenever a scan session is active, a further call of scan() fails
\* with the 'already in progress' error, sends no module-type request and
\* leaves the registry, the scan session and the loaded-count unchanged.
C1_ScanWhileActiveFails ==
    [][(ScanInFlight /\ lastOp'.op = "scan")
          => /\ lastOp'.raised = "ScanInProgress"
             /\ wire' = wire
             /\ modules' = modules
             /\ scan_callback' = scan_callback
             /\ modules_loaded' = modules_loaded]_vars

\* C2: in a scan session whose address-255 request completed and whose
\* registered modules all completed name resolution, the completion
\* callback has been invoked exactly once.
C2_CallbackExactlyOnce ==
    (Truthy(scan_callback) /\ ResolutionOver /\ DOMAIN modules # {})
        => cbInvocations = 1

\* C3: if the registry is empty when NameResolving begins, the completion
\* callback is invoked at once, on NameResolving entry.
C3_EmptyRegistryFiresAtOnce ==
    (lastOp.op = "scan_finished_resolve" /\ Truthy(scan_callback) /\ DOMAIN modules = {})
        => cbInvocations >= 1

\* C4: when every registered module has finished loading its name the
\* scan session is reset to none, so that the next scan() is accepted.
C4_SessionClearedWhenLoaded ==
    (lastOp.op = "module_loaded" /\ ResolutionOver) => ~ScanRejected(scan_callback)

\* C5: the registry holds an entry for address A if and only if a
\* recognized module-type response for A (type name known, constructor
\* registered) has been received; responses of an unknown or unsupported
\* type leave A unregistered.
C5_RegisteredIffRecognized ==
    \A a \in Addrs : (a \in DOMAIN modules) <=> (RecognizedAt(a) # {})

\* C5 witness: the name resolution of a scan is over, address 1 is
\* registered, and address 2 answered with a type that is not recognized
C5_Witness ==
    /\ ResolutionOver
    /\ DOMAIN modules = {1}
    /\ \E i \in 1..Len(responses) : responses[i].address = 2

\* C6 (as stated): first-write-wins, the registry maps A to the Module
\* created by the first recognized response for A.
C6_FirstWriteWins ==
    \A a \in DOMAIN modules :
        RecognizedAt(a) # {} => modules[a].id = First(RecognizedAt(a))

\* C6 (amended): last-write-wins, every address with a recognized response
\* is registered, and the registry maps it to the Module created by the
\* most recent recognized response for it.
C6_LastWriteWins ==
    \A a \in Addrs :
        RecognizedAt(a) # {} =>
            /\ a \in DOMAIN modules
            /\ modules[a].id = Last(RecognizedAt(a))
            /\ modules[a].m_type = responses[Last(RecognizedAt(a))].module_type
            /\ modules[a].address = a

\* C6 witness: an address was announced twice, with two recognized types
C6_Witness ==
    \E a \in DOMAIN modules :
        /\ Cardinality(RecognizedAt(a)) >= 2
        /\ responses[First(RecognizedAt(a))].module_type
              # responses[Last(RecognizedAt(a))].module_type
        /\ modules[a].id = Last(RecognizedAt(a))

\* C7: every decoded message handed to the controller, whatever its kind,
\* is delivered unmodified exactly once to every subscribed observer.
C7_DeliveredToEverySubscriber ==
    lastOp.op = "new_message" =>
        /\ Len(notified) = Len(subscribers)
        /\ \A i \in 1..Len(notified) :
              /\ notified[i].obs = subscribers[i].obs
              /\ notified[i].msg = lastOp.msg

\* C8: the subscribers notified of a message are notified in the order in
\* which they were subscribed.
C8_NotificationOrder ==
    \A i, j \in 1..Len(notified) : i < j => notified[i].ticket < notified[j].ticket

\* C8 witness: a message was delivered to two subscribers after the first
\* subscription had been withdrawn
C8_Witness ==
    /\ lastOp.op = "new_message"
    /\ Len(notified) >= 2
    /\ notified[1].ticket > 1

\* C9: get_modules() with a category that is not in the category table
\* fails with an error, whatever the registry holds.
C9_UnknownCategoryFails ==
    (lastOp.op = "get_modules" /\ lastOp.category \notin DOMAIN MODULE_CATEGORIES)
        => lastOp.raised # "None"

\* C10: for a known category get_modules() returns exactly the registered
\* modules whose type name is listed for the category, in registry order.
C10_ReturnsCategoryMembers ==
    (lastOp.op = "get_modules" /\ lastOp.category \in DOMAIN MODULE_CATEGORIES)
        => /\ lastOp.raised = "None"
           /\ lastOp.result =
                 SelectSeq(DictValues(modules, order),
                           LAMBDA m : m.name \in MODULE_CATEGORIES[lastOp.category])

\* C11: unsubscribe() of an observer that is not in the subscriber list is
\* a no-op: it raises no error and leaves the subscriber list unchanged.
\* (An unsubscribe() that removes nothing is one whose observer is absent.)
C11_UnsubscribeAbsentIsNoOp ==
    [][(lastOp'.op = "unsubscribe" /\ Len(subscribers') = Len(subscribers))
          => (lastOp'.raised = "None" /\ subscribers' = subscribers)]_vars

\* C12: when a subscriber callback subscribes or unsubscribes an observer
\* while a message is dispatched, every subscription that was in the list
\* when the dispatch began is still notified of the message exactly once.
C12_SnapshotSafeDispatch ==
    (lastOp.op = "new_message" /\ lastOp.raised = "None" /\ ~ReturnsEarly(lastOp.msg))
        => \A i \in 1..Len(lastOp.result) :
              Cardinality({j \in 1..Len(notified) :
                              notified[j].ticket = lastOp.result[i].ticket}) = 1

\* C17: when a subscriber is notified of a recognized module-type response
\* for address A, the registry it can see already holds an entry for A.
C17_RegistryUpdatedBeforeNotify ==
    \A i \in 1..Len(notified) :
        Recognized(notified[i].msg) => notified[i].msg.address \in notified[i].registry

\* C17 witness: a subscriber was notified of the response that registered
\* an address for the first time
C17_Witness ==
    /\ lastOp.op = "new_message"
    /\ Len(notified) >= 1
    /\ Recognized(lastOp.msg)
    /\ Cardinality(RecognizedAt(lastOp.msg.address)) = 1
    /\ lastOp.msg.address \in notified[1].registry

\* C13: a module registered after NameResolving began does not raise the
\* expected total: once every module that was asked for its name has
\* answered, the completion callback has been invoked, late module or not.
C13_LateModuleDoesNotStall ==
    (/\ lastOp.op = "module_loaded"
     /\ Truthy(scan_callback)
     /\ ~ScanInFlight
     /\ Cardinality(DOMAIN modules) > modules_loaded)
        => cbInvocations >= 1

C15_ScanSends256Requests ==
    [][(lastOp'.op = "scan" /\ lastOp'.raised = "None")
          => /\ Len(lastOp'.result) = 256
             /\ \A i \in 1..Len(lastOp'.result) :
                   /\ lastOp'.result[i].msg.kind = "ModuleTypeRequest"
                   /\ lastOp'.result[i].msg.address = i - 1
                   /\ (lastOp'.result[i].callback # "None") <=> (i - 1 = 255)
             /\ wire'.sent = wire.sent + 256
             /\ wire'.scanReqs = wire.scanReqs + 256
             /\ wire'.pending255 = wire.pending255 + 1
             /\ wire'.last = lastOp'.result[Len(lastOp'.result)]]_vars

\* C15 witness: a second scan() was accepted and its requests are sent
C15_Witness ==
    /\ lastOp.op = "scan"
    /\ lastOp.raised = "None"
    /\ wire.sent > 256
    /\ wire.last.msg.address = 255

\* C16: resolve-name requests are issued only when the settling interval
\* that follows the completion of the address-255 request ends, and then
\* exactly one for each module in the registry and none for other addresses.
C16_NameRequestsAfterSettling ==
    [][/\ (\E a \in Addrs : nameReq'[a] > nameReq[a])
            => (settling > 0 /\ lastOp'.op = "scan_finished_resolve")
       /\ lastOp'.op = "scan_finished_resolve"
            => \A a \in Addrs :
                  nameReq'[a] = nameReq[a] + (IF a \in DOMAIN modules THEN 1 ELSE 0)]_vars

\* C16 witness: the settling interval ended with address 1 registered by
\* the latest response and address 2 not registered
C16_Witness ==
    /\ lastOp.op = "scan_finished_resolve"
    /\ DOMAIN modules = {1}
    /\ modules[1].id = Len(responses)
    /\ nameReq[1] = 1
    /\ nameReq[2] = 0

\* C20: the loaded-count never exceeds the number of modules in the
\* registry.
C20_LoadedWithinRegistry ==
    modules_loaded <= Cardinality(DOMAIN modules)

\* C18: a message that is not a module-type response leaves the registry,
\* the scan session, the loaded-count and the subscriber list unchanged and
\* sends nothing on the transport; it is only delivered to the subscribers.
C18_StatusMessageChangesNothing ==
    [][(lastOp'.op = "new_message" /\ lastOp'.msg.kind # "ModuleType")
          => /\ UNCHANGED <<modules, order, scan_callback, modules_loaded, subscribers,
                            nextTicket, wire, settling, nameReq, responses, cbInvocations>>
             /\ lastOp'.raised = "None"
             /\ notified' = [i \in 1..Len(subscribers) |->
                               [obs |-> subscribers[i].obs,
                                ticket |-> subscribers[i].ticket,
                                msg |-> lastOp'.msg]]]_vars

\* C18 witness: a bus-off message was handled while a scan with a callback
\* was running, a module was registered and an observer was listening
C18_Witness ==
    /\ lastOp.op = "new_message"
    /\ lastOp.msg.kind = "BusOff"
    /\ DOMAIN modules # {}
    /\ Truthy(scan_callback)
    /\ ScanInFlight
    /\ Len(notified) >= 1

\* C19: send_binary() whose message decodes issues exactly one transport
\* send, of the decoded message with the callback supplied; when nothing
\* decodes it raises nothing, sends nothing, and changes neither the
\* registry nor the scan session nor the subscribers.
C19_SendBinarySendsOnceOrNothing ==
    [][lastOp'.op = "send_binary"
          => /\ lastOp'.raised = "None"
             /\ UNCHANGED <<modules, order, scan_callback, modules_loaded, subscribers,
                            nextTicket, settling, nameReq, responses, cbInvocations>>
             /\ IF lastOp'.msg.kind # "None"
                THEN /\ wire'.sent = wire.sent + 1
                     /\ wire'.scanReqs = wire.scanReqs
                     /\ wire'.pending255 = wire.pending255
                     /\ wire'.last = [msg |-> lastOp'.msg, callback |-> lastOp'.callback]
                ELSE wire' = wire]_vars

\* C19 witness: a decoded message was sent together with a callback
C19_Witness ==
    /\ lastOp.op = "send_binary"
    /\ lastOp.msg.kind # "None"
    /\ lastOp.callback = "cb"
    /\ wire.last.callback = "cb"
    /\ Len(subscribers) >= 1

=============================================================================
